---------------------------- MODULE Spec2Model ----------------------------
(***************************************************************************)
(* Model of Backend/Models/constraint.py: the seven Condition variants,   *)
(* their check methods, and Constraint.is_fulfilled.                       *)
(*                                                                         *)
(* Two specifications share the variables:                                 *)
(*   SpecCondition  one Condition object is constructed and its check is   *)
(*                  called on a sequence of contexts;                      *)
(*   Spec           a Constraint is built by appending Conditions and then *)
(*                  is_fulfilled is called from several threads, one       *)
(*                  element of the list comprehension per step.            *)
(*                                                                         *)
(* Python iterables are sequences (duplicates allowed) that can be         *)
(* iterated any number of times (lists, tuples, sets), Python sets are     *)
(* sets, None is the string "None", and a WAM is an integer mark.          *)
(***************************************************************************)
EXTENDS Integers, Sequences, FiniteSets, TLC

VARIABLES
    cond,        \* SpecCondition: the Condition object under test
    given,       \* SpecCondition: the arguments its constructor was given
    ctx,         \* SpecCondition: the keyword arguments of the latest check
    called,      \* SpecCondition: whether check has been called on cond
    ret,         \* SpecCondition: what the latest check returned
    conditions,  \* Spec: Constraint.conditions
    pc,          \* Spec: per thread, where its is_fulfilled call stands
    appended,    \* Spec: the Conditions as they were appended (history)
    passed,      \* Spec: per thread, the argument values as passed (history)
    args,        \* Spec: per thread, the caller's argument values as they are now
    idx,         \* Spec: per thread, the list comprehension's position
    results,     \* Spec: per thread, the list the comprehension has built
    retval       \* Spec: per thread, what is_fulfilled returned

condVars == <<cond, given, ctx, called, ret>>
callVars == <<conditions, appended, pc, passed, args, idx, results, retval>>
vars == <<cond, given, ctx, called, ret, conditions, appended, pc, passed, args, idx, results, retval>>

---------------------------------------------------------------------------
(* Bounds *)

\* longest iterable handed to a constructor or to check
MaxLen == 2
\* largest minimum_count handed to MinimumNumberOfUnitsCondition
MaxCount == 2
\* longest Constraint.conditions
MaxConds == 2

---------------------------------------------------------------------------
(* Value domains *)

None == "None"
Units == {"A", "B"}
CourseIds == {"BSc"}
SequenceIds == {"Maths"}
Wams == {60, 70}
MinimumWams == {65, 70}

RECURSIVE SeqsUpTo(_, _)
SeqsUpTo(S, n) ==
    IF n = 0 THEN {<<>>}
    ELSE LET shorter == SeqsUpTo(S, n - 1)
         IN  shorter \cup {Append(s, x) : s \in {q \in shorter : Len(q) = n - 1}, x \in S}

UnitIterables == SeqsUpTo(Units, MaxLen)
MinimumCounts == (0 - 1) .. MaxCount

\* the five keys of enrollment_info
Fields == {"units_completed", "units_enrolled", "enrolled_course",
           "enrolled_sequence", "current_wam"}

---------------------------------------------------------------------------
(* Python built-ins *)

\* set(iterable)
set(xs) == {xs[i] : i \in DOMAIN xs}

\* len(a_set)
len(s) == Cardinality(s)

\* mutant of all: any(a_list)
all_any(bs) == \E i \in DOMAIN bs : bs[i]

\* mutant of all: only the last check decides
all_last(bs) == IF bs = <<>> THEN TRUE ELSE bs[Len(bs)]

\* all(a_list)
all(bs) == \A i \in DOMAIN bs : bs[i]

---------------------------------------------------------------------------
(* Constructors: the object each __init__ leaves behind *)

MinimumNumberOfUnitsCondition(unit_set, minimum_count) ==
    [kind |-> "MinimumNumberOfUnits", set |-> set(unit_set), min |-> minimum_count]

PrerequisitesFulfilledCondition(prerequisite_units) ==
    [kind |-> "PrerequisitesFulfilled", prerequisites |-> set(prerequisite_units)]

CorequisitesFulfilledCondition(corequisite_units) ==
    [kind |-> "CorequisitesFulfilled", corequisites |-> set(corequisite_units)]

MutualExclusiveUnitsCondition(incompatible_units) ==
    [kind |-> "MutualExclusiveUnits", incompatible_units |-> set(incompatible_units)]

EnrolledInSequenceCondition(sequence) ==
    [kind |-> "EnrolledInSequence", sequence |-> sequence]

EnrolledInCourseCondition(course) ==
    [kind |-> "EnrolledInCourse", course |-> course]

MinimumWamCondition(minimum_wam) ==
    [kind |-> "MinimumWam", minimum_wam |-> minimum_wam]

NoCondition == [kind |-> "None"]
NoArguments == [kind |-> "None"]

---------------------------------------------------------------------------
(* check: what each variant returns for keyword arguments kw *)

\* mutant: units_completed is not made a set, so a unit listed twice counts twice
MinimumNumberOfUnits_check_multiset(self, kw) ==
    Len(SelectSeq(kw.units_completed, LAMBDA u : u \in self.set)) >= self.min

\* mutant: units being taken count as well
MinimumNumberOfUnits_check_enrolled(self, kw) ==
    LET units_completed == set(kw.units_completed) \cup set(kw.units_enrolled)
    IN  len(self.set \cap units_completed) >= self.min

MinimumNumberOfUnits_check(self, kw) ==
    LET units_completed == set(kw.units_completed)
    IN  len(self.set \cap units_completed) >= self.min

\* mutant: units being taken fulfil a prerequisite
PrerequisitesFulfilled_check_or_enrolled(self, kw) ==
    LET units_completed == set(kw.units_completed) \cup set(kw.units_enrolled)
    IN  self.prerequisites \subseteq units_completed

PrerequisitesFulfilled_check(self, kw) ==
    LET units_completed == set(kw.units_completed)
    IN  self.prerequisites \subseteq units_completed

\* mutant: only completed units fulfil a corequisite
CorequisitesFulfilled_check_completed_only(self, kw) ==
    LET units_completed_or_enrolled == set(kw.units_completed)
    IN  self.corequisites \subseteq units_completed_or_enrolled

CorequisitesFulfilled_check(self, kw) ==
    LET units_completed_or_enrolled == set(kw.units_completed) \cup set(kw.units_enrolled)
    IN  self.corequisites \subseteq units_completed_or_enrolled

\* bool(a_set) is True exactly for a non-empty set
MutualExclusiveUnits_check(self, kw) ==
    LET units_completed_or_enrolled == set(kw.units_completed) \cup set(kw.units_enrolled)
    IN  (self.incompatible_units \cap units_completed_or_enrolled) # {}

EnrolledInSequence_check(self, kw) ==
    self.sequence = kw.enrolled_sequence

EnrolledInCourse_check(self, kw) ==
    self.course = kw.enrolled_course

MinimumWam_check(self, kw) ==
    kw.current_wam >= self.minimum_wam

\* condition.check(**kw): dispatch on the object's class
check(self, kw) ==
    CASE self.kind = "MinimumNumberOfUnits"   -> MinimumNumberOfUnits_check(self, kw)
      [] self.kind = "PrerequisitesFulfilled" -> PrerequisitesFulfilled_check(self, kw)
      [] self.kind = "CorequisitesFulfilled"  -> CorequisitesFulfilled_check(self, kw)
      [] self.kind = "MutualExclusiveUnits"   -> MutualExclusiveUnits_check(self, kw)
      [] self.kind = "EnrolledInSequence"     -> EnrolledInSequence_check(self, kw)
      [] self.kind = "EnrolledInCourse"       -> EnrolledInCourse_check(self, kw)
      [] self.kind = "MinimumWam"             -> MinimumWam_check(self, kw)

\* mutant: MinimumNumberOfUnitsCondition.check uses intersection_update, which
\* narrows self.set in place
check_frame_update(self, kw) ==
    [self |-> IF self.kind = "MinimumNumberOfUnits"
              THEN [self EXCEPT !.set = @ \cap set(kw.units_completed)]
              ELSE self,
     kw |-> kw]

\* The object and the caller's values once check has returned.  Every check
\* only rebinds locals (set(...) copies) and uses the non-mutating
\* intersection / union / issubset, so both are left as they were.
check_frame(self, kw) == [self |-> self, kw |-> kw]

---------------------------------------------------------------------------
(* SpecCondition: one Condition object and its check *)

\* values a caller may pass under each key
FieldValues(f) ==
    CASE f = "units_completed"   -> UnitIterables
      [] f = "units_enrolled"    -> UnitIterables
      [] f = "enrolled_course"   -> CourseIds \cup {None}
      [] f = "enrolled_sequence" -> SequenceIds \cup {None}
      [] f = "current_wam"       -> Wams

\* a student with no history: the context before any call
EmptyContext ==
    [units_completed |-> <<>>, units_enrolled |-> <<>>, enrolled_course |-> None,
     enrolled_sequence |-> None, current_wam |-> CHOOSE w \in Wams : \A v \in Wams : w <= v]

\* the state right after cond = <constructor>(arguments)
Constructed(object, arguments) ==
    /\ cond = object
    /\ given = arguments
    /\ ctx = EmptyContext
    /\ called = FALSE
    /\ ret = FALSE

NewMinimumNumberOfUnits ==
    \E unit_set \in UnitIterables, minimum_count \in MinimumCounts :
        Constructed(MinimumNumberOfUnitsCondition(unit_set, minimum_count),
                    [kind |-> "MinimumNumberOfUnits", unit_set |-> unit_set,
                     minimum_count |-> minimum_count])

NewPrerequisitesFulfilled ==
    \E units \in UnitIterables :
        Constructed(PrerequisitesFulfilledCondition(units),
                    [kind |-> "PrerequisitesFulfilled", units |-> units])

NewCorequisitesFulfilled ==
    \E units \in UnitIterables :
        Constructed(CorequisitesFulfilledCondition(units),
                    [kind |-> "CorequisitesFulfilled", units |-> units])

NewMutualExclusiveUnits ==
    \E units \in UnitIterables :
        Constructed(MutualExclusiveUnitsCondition(units),
                    [kind |-> "MutualExclusiveUnits", units |-> units])

NewEnrolledInSequence ==
    \E sequence \in SequenceIds \cup {None} :
        Constructed(EnrolledInSequenceCondition(sequence),
                    [kind |-> "EnrolledInSequence", sequence |-> sequence])

NewEnrolledInCourse ==
    \E course \in CourseIds \cup {None} :
        Constructed(EnrolledInCourseCondition(course),
                    [kind |-> "EnrolledInCourse", course |-> course])

NewMinimumWam ==
    \E minimum_wam \in MinimumWams :
        Constructed(MinimumWamCondition(minimum_wam),
                    [kind |-> "MinimumWam", minimum_wam |-> minimum_wam])

\* cond.check(**kw), for a context kw that differs from the previous call's
\* in at most one key (every context is reached key by key)
CallCheck ==
    /\ cond # NoCondition
    /\ \E f \in Fields : \E v \in FieldValues(f) :
          LET kw == [ctx EXCEPT ![f] = v]
              after == check_frame(cond, kw)
          IN  /\ ret' = check(cond, kw)
              /\ cond' = after.self
              /\ ctx' = after.kw
    /\ called' = TRUE
    /\ UNCHANGED <<given>>
    /\ UNCHANGED callVars

---------------------------------------------------------------------------
(* Spec: a Constraint, built and then evaluated from several threads *)

Threads == {"t1", "t2"}

\* the rule definitions a Constraint is built from
RuleCatalog ==
    {MinimumNumberOfUnitsCondition(<<"A", "B">>, 1),
     PrerequisitesFulfilledCondition(<<"A">>),
     CorequisitesFulfilledCondition(<<"B">>),
     MutualExclusiveUnitsCondition(<<"B">>),
     EnrolledInSequenceCondition("Maths"),
     EnrolledInCourseCondition("BSc"),
     MinimumWamCondition(65)}

\* the contexts is_fulfilled is called with
CallContexts ==
    {[units_completed |-> c, units_enrolled |-> e, enrolled_course |-> p[1],
      enrolled_sequence |-> p[2], current_wam |-> p[3]] :
        c \in {<<>>, <<"A">>, <<"B", "A">>},
        e \in {<<>>, <<"B">>},
        p \in {<<None, None, 60>>, <<"BSc", "Maths", 70>>}}

\* constraint.conditions.append(c); by the publication rule only while no
\* is_fulfilled call is in progress
AppendCondition ==
    /\ \A t \in Threads : pc[t] = "idle"
    /\ Len(conditions) < MaxConds
    /\ \E c \in RuleCatalog :
          /\ conditions' = Append(conditions, c)
          /\ appended' = Append(appended, c)
    /\ UNCHANGED <<pc, passed, args, idx, results, retval>>
    /\ UNCHANGED condVars

\* mutant: enrollment_info is kept in one place shared by all calls, so a
\* call reads the arguments of whichever call is in progress
enrollment_info_shared(t) ==
    LET u == CHOOSE u \in Threads : pc[u] # "idle"
    IN  [units_completed |-> args[u].units_completed,
         units_enrolled |-> args[u].units_enrolled,
         enrolled_course |-> args[u].enrolled_course,
         enrolled_sequence |-> args[u].enrolled_sequence,
         current_wam |-> args[u].current_wam]

\* the enrollment_info dict of thread t's call: a local, built from the
\* call's own arguments
enrollment_info(t) ==
    [units_completed |-> args[t].units_completed,
     units_enrolled |-> args[t].units_enrolled,
     enrolled_course |-> args[t].enrolled_course,
     enrolled_sequence |-> args[t].enrolled_sequence,
     current_wam |-> args[t].current_wam]

\* thread t enters is_fulfilled and starts the list comprehension
Call(t) ==
    /\ pc[t] = "idle"
    /\ \E kw \in CallContexts :
          /\ args' = [args EXCEPT ![t] = kw]
          /\ passed' = [passed EXCEPT ![t] = kw]
    /\ pc' = [pc EXCEPT ![t] = "iter"]
    /\ idx' = [idx EXCEPT ![t] = 1]
    /\ results' = [results EXCEPT ![t] = <<>>]
    /\ UNCHANGED <<conditions, appended, retval>>
    /\ UNCHANGED condVars

\* one element of [condition.check(**enrollment_info) for condition in self.conditions]
CheckNext(t) ==
    /\ pc[t] = "iter"
    /\ idx[t] <= Len(conditions)
    /\ LET condition == conditions[idx[t]]
           info == enrollment_info(t)
           after == check_frame(condition, info)
       IN  /\ results' = [results EXCEPT ![t] = Append(@, check(condition, info))]
           /\ conditions' = [conditions EXCEPT ![idx[t]] = after.self]
           /\ args' = [args EXCEPT ![t] = after.kw]
    /\ idx' = [idx EXCEPT ![t] = @ + 1]
    /\ UNCHANGED <<appended, passed, pc, retval>>
    /\ UNCHANGED condVars

\* the comprehension is exhausted: return all(the list)
Return(t) ==
    /\ pc[t] = "iter"
    /\ idx[t] > Len(conditions)
    /\ retval' = [retval EXCEPT ![t] = all(results[t])]
    /\ pc' = [pc EXCEPT ![t] = "done"]
    /\ UNCHANGED <<conditions, appended, passed, args, idx, results>>
    /\ UNCHANGED condVars

\* the caller drops the call's context and result
Discard(t) ==
    /\ pc[t] = "done"
    /\ pc' = [pc EXCEPT ![t] = "idle"]
    /\ args' = [args EXCEPT ![t] = EmptyContext]
    /\ passed' = [passed EXCEPT ![t] = EmptyContext]
    /\ idx' = [idx EXCEPT ![t] = 1]
    /\ results' = [results EXCEPT ![t] = <<>>]
    /\ retval' = [retval EXCEPT ![t] = FALSE]
    /\ UNCHANGED <<conditions, appended>>
    /\ UNCHANGED condVars

\* is_fulfilled as one call: the comprehension's list, then all()
is_fulfilled(self_conditions, kw) ==
    all([i \in 1 .. Len(self_conditions) |-> check(self_conditions[i], kw)])

---------------------------------------------------------------------------
(* Specifications *)

NoCalls ==
    /\ conditions = <<>>
    /\ appended = <<>>
    /\ pc = [t \in Threads |-> "idle"]
    /\ passed = [t \in Threads |-> EmptyContext]
    /\ args = [t \in Threads |-> EmptyContext]
    /\ idx = [t \in Threads |-> 1]
    /\ results = [t \in Threads |-> <<>>]
    /\ retval = [t \in Threads |-> FALSE]

\* a Condition of any of the seven classes has just been constructed
InitCondition ==
    /\ \/ NewMinimumNumberOfUnits
       \/ NewPrerequisitesFulfilled
       \/ NewCorequisitesFulfilled
       \/ NewMutualExclusiveUnits
       \/ NewEnrolledInSequence
       \/ NewEnrolledInCourse
       \/ NewMinimumWam
    /\ NoCalls

NextCondition == CallCheck

SpecCondition == InitCondition /\ [][NextCondition]_vars

\* Constraint(): the conditions list starts empty
Init ==
    /\ Constructed(NoCondition, NoArguments)
    /\ NoCalls

Next ==
    \/ AppendCondition
    \/ \E t \in Threads : Call(t)
    \/ \E t \in Threads : CheckNext(t)
    \/ \E t \in Threads : Return(t)
    \/ \E t \in Threads : Discard(t)

Spec == Init /\ [][Next]_vars

---------------------------------------------------------------------------
(* Properties *)

\* unit u is listed in iterable xs
Occurs(u, xs) == \E i \in DOMAIN xs : xs[i] = u

\* iterable xs lists some unit twice
HasDuplicate(xs) == \E i, j \in DOMAIN xs : i # j /\ xs[i] = xs[j]

IsChecked(kind) == cond.kind = kind /\ called

\* the context keys each variant consumes
Consumes(kind) ==
    CASE kind = "MinimumNumberOfUnits"   -> {"units_completed"}
      [] kind = "PrerequisitesFulfilled" -> {"units_completed"}
      [] kind = "CorequisitesFulfilled"  -> {"units_completed", "units_enrolled"}
      [] kind = "MutualExclusiveUnits"   -> {"units_completed", "units_enrolled"}
      [] kind = "EnrolledInSequence"     -> {"enrolled_sequence"}
      [] kind = "EnrolledInCourse"       -> {"enrolled_course"}
      [] kind = "MinimumWam"             -> {"current_wam"}

Done(t) == pc[t] = "done"

Permuted(list, p) == [i \in 1 .. Len(list) |-> list[p[i]]]

\* C1: a finished is_fulfilled call returned true exactly when every
\* Condition of the conditions list checks true on the context the call was
\* given; with no Conditions it returned true.
C1_FulfilledIffAllChecksHold ==
    \A t \in Threads :
        Done(t) =>
            retval[t] = (\A i \in 1 .. Len(conditions) : check(conditions[i], passed[t]))

\* a call over two Conditions, one holding and one not, returned false
C1_Witness ==
    \E t \in Threads :
        /\ Done(t)
        /\ Len(conditions) = 2
        /\ check(conditions[1], passed[t])
        /\ ~check(conditions[2], passed[t])
        /\ retval[t] = FALSE

\* C2: the mutual-exclusion condition over X checks true exactly when no
\* unit of X is completed or being taken.
C2_MutualExclusionHoldsIffDisjoint ==
    IsChecked("MutualExclusiveUnits") =>
        ret = (\A u \in Units :
                  ~(/\ Occurs(u, given.units)
                    /\ Occurs(u, ctx.units_completed) \/ Occurs(u, ctx.units_enrolled)))

\* C3: constructing a MinimumNumberOfUnitsCondition with a negative minimum
\* count fails, so no such object is ever there to be checked and to return
\* a boolean.
C3_NegativeCountRejected ==
    IsChecked("MinimumNumberOfUnits") => given.minimum_count >= 0

\* C4: the minimum-unit-count condition over R with threshold k checks true
\* exactly when at least k distinct units are both listed in R and listed in
\* units_completed, however often either lists them; units_enrolled plays
\* no part.
C4_MinimumUnitCount ==
    IsChecked("MinimumNumberOfUnits") =>
        ret = (Cardinality({u \in Units : /\ Occurs(u, given.unit_set)
                                          /\ Occurs(u, ctx.units_completed)})
                  >= given.minimum_count)

\* R and units_completed both list a unit of R twice, a unit of R is being
\* taken, and the check fails for threshold 2: counting repeated entries, or
\* the unit being taken, would have reached it
C4_Witness ==
    /\ IsChecked("MinimumNumberOfUnits")
    /\ HasDuplicate(given.unit_set)
    /\ HasDuplicate(ctx.units_completed)
    /\ \E u \in Units : Occurs(u, given.unit_set) /\ Occurs(u, ctx.units_enrolled)
    /\ given.minimum_count = 2
    /\ \E u \in Units : Occurs(u, given.unit_set) /\ Occurs(u, ctx.units_completed)
    /\ ret = FALSE

\* C5: the corequisites condition over C checks true exactly when every unit
\* of C is completed or being taken.
C5_Corequisites ==
    IsChecked("CorequisitesFulfilled") =>
        ret = (\A u \in Units :
                  Occurs(u, given.units) =>
                      Occurs(u, ctx.units_completed) \/ Occurs(u, ctx.units_enrolled))

\* one corequisite is only completed, another only being taken, and the
\* check holds
C5_Witness ==
    /\ IsChecked("CorequisitesFulfilled")
    /\ \E u, v \in Units :
          /\ Occurs(u, given.units) /\ Occurs(v, given.units)
          /\ Occurs(u, ctx.units_completed) /\ ~Occurs(u, ctx.units_enrolled)
          /\ Occurs(v, ctx.units_enrolled) /\ ~Occurs(v, ctx.units_completed)
    /\ ret = TRUE

\* C6: the prerequisites condition over P checks true exactly when every
\* unit of P is completed; a unit being taken does not count, and an empty P
\* always holds.
C6_Prerequisites ==
    IsChecked("PrerequisitesFulfilled") =>
        ret = (\A u \in Units : Occurs(u, given.units) => Occurs(u, ctx.units_completed))

\* a prerequisite is being taken but not completed, and the check fails
C6_Witness ==
    /\ IsChecked("PrerequisitesFulfilled")
    /\ \E u \in Units : /\ Occurs(u, given.units)
                        /\ Occurs(u, ctx.units_enrolled)
                        /\ ~Occurs(u, ctx.units_completed)
    /\ \A u \in Units : Occurs(u, given.units) => Occurs(u, ctx.units_enrolled)
    /\ ret = FALSE

\* C7: when a check follows another on the same Condition with a context
\* that agrees on every key the variant consumes, it returns the same
\* result, whatever the other keys hold.
C7_IgnoredFieldsDoNotMatter ==
    [][(/\ called /\ called'
        /\ cond' = cond
        /\ \A f \in Consumes(cond.kind) : ctx'[f] = ctx[f])
          => ret' = ret]_vars

\* a Condition has been checked on a context whose consumed keys are those
\* of the empty context and whose other keys all differ from it
C7_Witness ==
    /\ called
    /\ \A f \in Fields :
          (f \in Consumes(cond.kind)) <=> (ctx[f] = EmptyContext[f])

C9_ConcurrentCallsAreIndependent ==
    \A t \in Threads :
        /\ pc[t] # "idle" =>
              \A i \in DOMAIN results[t] : results[t][i] = check(appended[i], passed[t])
        /\ Done(t) => retval[t] = is_fulfilled(appended, passed[t])

\* two calls with different contexts are both half way through the list,
\* with different results so far
C9_Witness ==
    /\ Len(conditions) = 2
    /\ \A t \in Threads : pc[t] = "iter" /\ idx[t] = 2
    /\ \E t, u \in Threads : passed[t] # passed[u] /\ results[t] # results[u]

=============================================================================
